---- MODULE Spec2Model ----
(***************************************************************************)
(* Screen connection registry and playlist broadcast of the digital        *)
(* signage server (server/routes.ts, both variants kept in the tree: the   *)
(* authenticated one and the "authentication removed" one that also        *)
(* accepts REGISTER_SCREEN).                                               *)
(*                                                                         *)
(* The registry is the module-level Map screenConnections; a JavaScript    *)
(* Map iterates in insertion order, so it is modelled as a sequence of     *)
(* [key, conn] entries.  Storage calls are assumed to succeed (their       *)
(* failures are outside this model); WebSocket.send may raise.             *)
(*                                                                         *)
(* Further parts, each with its own variable and specification: the        *)
(* Express layers of server/index.ts, the AI helpers of server/openai.ts,  *)
(* the server's handlers statement by statement with storage calls in      *)
(* flight, the client hook useWebSocket and the Player page.               *)
(***************************************************************************)
EXTENDS Integers, Sequences, FiniteSets, TLC

\* ---------------------------------------------------------------- bounds
MaxConns == 2
MaxKeys == 2
MaxTargets == 2
\* distinct screenIds one connection announces by REGISTER_SCREEN
MaxScreenIds == 1
\* updateScreenOnlineStatus calls in flight at one time
MaxPending == 2
\* items of a playlist, and the longest duration of an item in seconds
MaxItems == 2
MaxDuration == 2

Conns == 1..MaxConns
DeviceKeys == 1..MaxKeys

\* the deviceKeys of the rows of table screens: every key but the last has a
\* screen record
ScreenRecords == {k \in DeviceKeys : k < MaxKeys}

\* what storage returns to the broadcast route: the playlist with its items
\* and the id of the created broadcast row (opaque values)
StoredPlaylist == "playlist"
StoredBroadcastId == "broadcast.id"

\* Map.get of an absent key (undefined)
None == 0
\* a falsy deviceKey / screenId ("" or missing)
EmptyKey == 0

\* HTTP status codes of the broadcast route; NoResponse: nothing sent yet
NoResponse == 0
HttpOk == 200
HttpBadRequest == 400
HttpNotFound == 404
HttpServerError == 500

Range(s) == {s[i] : i \in DOMAIN s}

\* ------------------------------------------------------------------ state
VARIABLES
  variant,      \* which routes file is running: "auth" or "noauth"
  connState,    \* readyState of every server-side WebSocket
  registry,     \* screenConnections, in insertion order
  closeKeys,    \* screenIds of the close listeners added by REGISTER_SCREEN
  req,          \* the POST /api/broadcasts request being handled
  last,         \* the handler step that ran last and what it did
  lastSet,      \* history: the connection of the latest screenConnections.set(k, .),
                \* None once that connection has closed
  lastVia,      \* history: the message type of that latest set
  stale,        \* history: the connection whose PLAYER_REGISTER entry was
                \* replaced by the WebSocket event handled last, and the key
  http,         \* a request on its way through the Express layers of the app
  hook,         \* the useWebSocket hook of one mounted client component
  ai,           \* the last call of tagImage or generateAISuggestions
  loop,         \* the server's event loop: the handler on the stack, the
                \* storage calls in flight and the isOnline column
  player        \* the state of the Player page of one client

\* the registry, its sockets and the broadcast request
registryVars == <<variant, connState, registry, closeKeys, req, last, lastSet,
                  lastVia, stale>>

\* the state outside the registry and the broadcast route
others == <<http, hook, ai, loop, player>>

vars == <<variant, connState, registry, closeKeys, req, last, lastSet,
          lastVia, stale, http, hook, ai, loop, player>>

\* ------------------------------------------------------- Map operations
MapIndex(m, k) ==
  IF \E i \in DOMAIN m : m[i].key = k
  THEN CHOOSE i \in DOMAIN m : m[i].key = k /\ \A j \in 1..(i - 1) : m[j].key # k
  ELSE 0

MapGet(m, k) == IF MapIndex(m, k) = 0 THEN None ELSE m[MapIndex(m, k)].conn

\* Map.set that always adds an entry, also when the key is present
MapSet_Append(m, k, v) == Append(m, [key |-> k, conn |-> v])

\* Map.set that leaves the entry of a present key alone
MapSet_KeepFirst(m, k, v) ==
  IF MapIndex(m, k) = 0
  THEN Append(m, [key |-> k, conn |-> v])
  ELSE m

MapSet(m, k, v) ==
  IF MapIndex(m, k) = 0
  THEN Append(m, [key |-> k, conn |-> v])
  ELSE [m EXCEPT ![MapIndex(m, k)].conn = v]

MapDelete(m, k) ==
  IF MapIndex(m, k) = 0
  THEN m
  ELSE SubSeq(m, 1, MapIndex(m, k) - 1) \o SubSeq(m, MapIndex(m, k) + 1, Len(m))

\* ------------------------------------------------------------- messages
Messages ==
  [kind : {"json"}, type : {"PLAYER_REGISTER"}, payload : {TRUE},
   deviceKey : DeviceKeys \cup {EmptyKey}, screenId : {EmptyKey}]
  \cup
  [kind : {"json"}, type : {"PLAYER_REGISTER"}, payload : {FALSE},
   deviceKey : {EmptyKey}, screenId : {EmptyKey}]
  \cup
  [kind : {"json"}, type : {"PLAYER_STATUS"}, payload : BOOLEAN,
   deviceKey : {1, EmptyKey}, screenId : {EmptyKey}]
  \cup
  [kind : {"json"}, type : {"REGISTER_SCREEN"}, payload : {FALSE},
   deviceKey : {EmptyKey}, screenId : DeviceKeys \cup {EmptyKey}]
  \cup
  [kind : {"json"}, type : {"OTHER"}, payload : {FALSE},
   deviceKey : {EmptyKey}, screenId : {EmptyKey}]
  \cup
  [kind : {"garbage"}, type : {"OTHER"}, payload : {FALSE},
   deviceKey : {EmptyKey}, screenId : {EmptyKey}]

\* PLAYER_REGISTER messages carrying a non-empty deviceKey
RegisterMessages ==
  {m \in Messages : m.type = "PLAYER_REGISTER" /\ m.payload
                    /\ m.deviceKey # EmptyKey}

\* the request: where its handler is, the status of its broadcast row, whether
\* the dispatch loop was entered, and its response
IdleReq ==
  [pc |-> "idle", status |-> "none", dispatched |-> FALSE,
   response |-> NoResponse]

\* no inbound message (the step is not a message event)
NoMessage ==
  [kind |-> "none", type |-> "none", payload |-> FALSE,
   deviceKey |-> EmptyKey, screenId |-> EmptyKey]

\* a handler step: the event, the storage calls it issued; for a message
\* event the message, whether the key it set was already mapped to the
\* socket, and what became of an exception; for the dispatch loop its
\* targets and the messages it sent
Step(op) ==
  [op |-> op, calls |-> <<>>, ids |-> <<>>,
   sent |-> <<>>, threwAt |-> 0, data |-> <<>>,
   msg |-> NoMessage, again |-> FALSE, error |-> "none"]

NoStale == [conn |-> None, key |-> EmptyKey]

\* no request is in the Express stack
IdleHttp ==
  [pc |-> "idle", path |-> <<>>, session |-> FALSE, clerk |-> FALSE,
   pos |-> 0, passedClerk |-> FALSE, handler |-> "none", owner |-> "none",
   response |-> NoResponse]

\* no reconnect timeout is pending
NoTimer == 0

\* the hook after its mount effect has called connect(): ws is the readyState
\* of its socket, attempts is reconnectAttempts.current, timer the delay of
\* the pending reconnect timeout and elapsed the time since it was set, code
\* the code of the last close event, cleared whether the timeout was
\* cancelled; n is history: the reconnects made since the last open (or the
\* mount)
\* socket is the state variable socket (null, or the socket set by onopen),
\* rendered its value at the last commit of the component (null, that socket,
\* or an old one closed since), out what sendMessage has sent on the socket,
\* first whether the socket is the one the mount effect created
MountedHook ==
  [ws |-> "CONNECTING", isConnected |-> FALSE, attempts |-> 0,
   timer |-> NoTimer, elapsed |-> 0, code |-> 0, cleared |-> FALSE, n |-> 0,
   lastMessage |-> "null", socket |-> "null", rendered |-> "null",
   out |-> <<>>, first |-> TRUE]

\* the hook before the component is mounted: no socket yet
UnmountedHook == [MountedHook EXCEPT !.ws = "NONE"]

\* currentPlaylist: null, or a playlist with its items (their durations)
NoPlaylist == [loaded |-> FALSE, items |-> <<>>]

\* the Player page before it is mounted, with the initial playerState; op is
\* history: the event handled last; shown is history: the ticks for which
\* the current item has been on display
UnmountedPlayer ==
  [mounted |-> FALSE, deviceKey |-> EmptyKey, currentPlaylist |-> NoPlaylist,
   currentIndex |-> 0, isPlaying |-> FALSE, timeRemaining |-> 0,
   fetched |-> FALSE, op |-> "none", shown |-> 0]

\* a JavaScript value of a request body member: its type and, for a string,
\* its text
Undefined == [t |-> "undefined", v |-> ""]
Null == [t |-> "null", v |-> ""]
Str(text) == [t |-> "string", v |-> text]
Num(text) == [t |-> "number", v |-> text]

\* no AI function has been called
IdleAI ==
  [pc |-> "idle", fn |-> "none", name |-> {}, timeOfDay |-> Undefined,
   audienceType |-> Undefined, outcome |-> "none", result |-> <<>>]

\* no handler is on the stack
NoRun ==
  [handler |-> "none", conn |-> None, key |-> EmptyKey, todo |-> <<>>,
   entries |-> <<>>, i |-> 0]

\* the event loop at start: an empty stack, no storage call in flight (calls
\* are kept in the order of their issue) and no screen marked online
IdleLoop == [run |-> NoRun, pending |-> <<>>, online |-> {}]

Init ==
  /\ variant \in {"auth", "noauth"}
  /\ connState = [c \in Conns |-> "NEW"]
  /\ registry = <<>>
  /\ closeKeys = [c \in Conns |-> {}]
  /\ req = IdleReq
  /\ last = Step("none")
  /\ lastSet = [k \in DeviceKeys |-> None]
  /\ lastVia = [k \in DeviceKeys |-> "none"]
  /\ stale = NoStale
  /\ http = IdleHttp
  /\ hook = UnmountedHook
  /\ ai = IdleAI
  /\ player = UnmountedPlayer
  /\ loop = IdleLoop

\* ------------------------------------------------------ WebSocket events
\* wss.on('connection'): sockets are numbered in order of arrival
Connect(c) ==
  /\ connState[c] = "NEW"
  /\ \A d \in Conns : d < c => connState[d] # "NEW"
  /\ connState' = [connState EXCEPT ![c] = "OPEN"]
  /\ last' = Step("connection")
  /\ stale' = NoStale
  /\ UNCHANGED <<variant, registry, closeKeys, req, lastSet, lastVia>>
  /\ UNCHANGED others

\* first message listener of the noauth variant (REGISTER_SCREEN)
ScreenRegisters(m) ==
  /\ variant = "noauth"
  /\ m.kind = "json"
  /\ m.type = "REGISTER_SCREEN"
  /\ m.screenId # EmptyKey

\* PLAYER_REGISTER without the "if (deviceKey)" test
PlayerRegisters_NoKeyTest(m) ==
  /\ m.kind = "json"
  /\ m.type = "PLAYER_REGISTER"
  /\ m.payload

\* a handler that treats PLAYER_STATUS as a registration
PlayerRegisters_StatusToo(m) ==
  /\ m.kind = "json"
  /\ m.type \in {"PLAYER_REGISTER", "PLAYER_STATUS"}
  /\ m.payload
  /\ m.deviceKey # EmptyKey

\* the PLAYER_REGISTER branch with a truthy deviceKey
PlayerRegisters(m) ==
  /\ m.kind = "json"
  /\ m.type = "PLAYER_REGISTER"
  /\ m.payload
  /\ m.deviceKey # EmptyKey

\* the listener raises inside its try block: JSON.parse of a body that is
\* not JSON, or destructuring data.payload when the payload is missing
Raises(m) ==
  \/ m.kind = "garbage"
  \/ /\ m.kind = "json"
     /\ m.type \in {"PLAYER_REGISTER", "PLAYER_STATUS"}
     /\ ~m.payload

\* a listener without its try/catch lets the exception out
MessageError_NoCatch(m) == IF Raises(m) THEN "escaped" ELSE "none"

\* catch (error) { console.error(...) }: the exception is logged
MessageError(m) == IF Raises(m) THEN "caught" ELSE "none"

\* a handler that registers without the storage call
RegisterCalls_None(m) == <<>>

\* await storage.updateScreenOnlineStatus(deviceKey, true)
RegisterCalls(m) ==
  IF PlayerRegisters(m)
  THEN <<[key |-> m.deviceKey, online |-> TRUE]>>
  ELSE <<>>

\* ws.on('message'): every message listener of the socket runs
OnMessage(c, m) ==
  /\ connState[c] = "OPEN"
  /\ ScreenRegisters(m) =>
       Cardinality(closeKeys[c] \cup {m.screenId}) <= MaxScreenIds
  /\ registry' =
       IF ScreenRegisters(m) THEN MapSet(registry, m.screenId, c)
       ELSE IF PlayerRegisters(m) THEN MapSet(registry, m.deviceKey, c)
       ELSE registry
  /\ closeKeys' =
       IF ScreenRegisters(m)
       THEN [closeKeys EXCEPT ![c] = @ \cup {m.screenId}]
       ELSE closeKeys
  /\ lastSet' =
       IF ScreenRegisters(m) THEN [lastSet EXCEPT ![m.screenId] = c]
       ELSE IF PlayerRegisters(m) THEN [lastSet EXCEPT ![m.deviceKey] = c]
       ELSE lastSet
  /\ lastVia' =
       IF ScreenRegisters(m)
       THEN [lastVia EXCEPT ![m.screenId] = "REGISTER_SCREEN"]
       ELSE IF PlayerRegisters(m)
       THEN [lastVia EXCEPT ![m.deviceKey] = "PLAYER_REGISTER"]
       ELSE lastVia
  /\ stale' =
       IF ScreenRegisters(m) \/ PlayerRegisters(m)
       THEN LET k == IF ScreenRegisters(m) THEN m.screenId ELSE m.deviceKey
            IN IF /\ MapGet(registry, k) \notin {None, c}
                  /\ lastVia[k] = "PLAYER_REGISTER"
               THEN [conn |-> MapGet(registry, k), key |-> k]
               ELSE NoStale
       ELSE NoStale
  /\ last' =
       [Step(IF m.kind = "json" THEN m.type ELSE "garbage")
        EXCEPT !.calls = RegisterCalls(m),
               !.msg = m,
               !.again =
                 \/ ScreenRegisters(m) /\ MapGet(registry, m.screenId) = c
                 \/ PlayerRegisters(m) /\ MapGet(registry, m.deviceKey) = c,
               !.error = MessageError(m)]
  /\ UNCHANGED <<variant, connState, req>>
  /\ UNCHANGED others

\* the peer's close frame arrived: readyState is CLOSING until the socket ends
BeginClose(c) ==
  /\ connState[c] = "OPEN"
  /\ connState' = [connState EXCEPT ![c] = "CLOSING"]
  /\ last' = Step("closing")
  /\ stale' = NoStale
  /\ UNCHANGED <<variant, registry, closeKeys, req, lastSet, lastVia>>
  /\ UNCHANGED others

\* index of the first entry whose value is the socket, 0 when there is none
FirstEntryOf(m, c) ==
  IF \E i \in DOMAIN m : m[i].conn = c
  THEN CHOOSE i \in DOMAIN m : m[i].conn = c /\ \A j \in 1..(i - 1) : m[j].conn # c
  ELSE 0

\* the close listener installed on connection: scan, delete, break
ScanClose(m, c) ==
  IF FirstEntryOf(m, c) = 0 THEN m ELSE MapDelete(m, m[FirstEntryOf(m, c)].key)

\* the mark-offline call of that listener
ScanCloseCalls(m, c) ==
  IF FirstEntryOf(m, c) = 0 THEN <<>>
  ELSE <<[key |-> m[FirstEntryOf(m, c)].key, online |-> FALSE]>>

\* the close listeners added by REGISTER_SCREEN: delete by key
RECURSIVE DeleteKeys(_, _)
DeleteKeys(m, ks) ==
  IF ks = {} THEN m
  ELSE LET k == CHOOSE x \in ks : TRUE
       IN DeleteKeys(MapDelete(m, k), ks \ {k})

\* ws 'close' event: all close listeners of the socket run
CloseEvent(c) ==
  /\ connState[c] \in {"OPEN", "CLOSING"}
  /\ connState' = [connState EXCEPT ![c] = "CLOSED"]
  /\ registry' = DeleteKeys(ScanClose(registry, c), closeKeys[c])
  /\ last' = [Step("close")
              EXCEPT !.calls = ScanCloseCalls(registry, c)]
  /\ closeKeys' = [closeKeys EXCEPT ![c] = {}]
  /\ lastSet' = [k \in DeviceKeys |->
                   IF lastSet[k] = c THEN None ELSE lastSet[k]]
  /\ lastVia' = [k \in DeviceKeys |->
                   IF lastSet[k] = c THEN "none" ELSE lastVia[k]]
  /\ stale' = NoStale
  /\ UNCHANGED <<variant, req>>
  /\ UNCHANGED others

\* ------------------------------------- the handlers, statement by statement
\* a handler runs on the stack until it returns or awaits; the next event
\* is dispatched when the stack is empty

\* a PLAYER_REGISTER branch that awaits the storage call before the insert
RegisterSteps_AwaitFirst == <<"await", "set">>

\* the PLAYER_REGISTER branch: screenConnections.set, then await
\* storage.updateScreenOnlineStatus
RegisterSteps == <<"set", "await">>

\* a storage call in flight: its arguments and, when statements follow the
\* await, the handler that resumes after it with its socket
StorageCall(key, isOnline, conn, todo) ==
  [key |-> key, online |-> isOnline, then |-> todo,
   conn |-> IF todo = <<>> THEN None ELSE conn]

\* wss.on('connection') is dispatched
OnConnection(c) ==
  /\ loop.run = NoRun
  /\ Connect(c)

\* the peer's close frame is handled
OnClosing(c) ==
  /\ loop.run = NoRun
  /\ BeginClose(c)

\* a 'message' event with PLAYER_REGISTER{deviceKey: key} is dispatched:
\* JSON.parse, the type test and the deviceKey test
MessageEvent(c, key) ==
  /\ loop.run = NoRun
  /\ Len(loop.pending) < MaxPending
  /\ connState[c] = "OPEN"
  /\ loop' = [loop EXCEPT !.run = [NoRun EXCEPT !.handler = "message",
                                                !.conn = c, !.key = key,
                                                !.todo = RegisterSteps]]
  /\ UNCHANGED <<registryVars, http, hook, ai, player>>

\* the next statement of the running message handler
RegisterStep ==
  /\ loop.run.handler = "message"
  /\ LET run == loop.run
         rest == [run EXCEPT !.todo = Tail(@)]
     IN IF Head(run.todo) = "set"
        THEN /\ registry' = MapSet(registry, run.key, run.conn)
             /\ loop' = [loop EXCEPT !.run = IF rest.todo = <<>> THEN NoRun
                                              ELSE rest]
        ELSE /\ loop' = [loop EXCEPT
                          !.pending = Append(@, StorageCall(run.key, TRUE,
                                                            run.conn,
                                                            rest.todo)),
                          !.run = NoRun]
             /\ UNCHANGED registry
  /\ UNCHANGED <<variant, connState, closeKeys, req, last, lastSet, lastVia,
                 stale, http, hook, ai, player>>

\* the 'close' event is dispatched: Array.from(screenConnections.entries())
OnClose(c) ==
  /\ loop.run = NoRun
  /\ Len(loop.pending) < MaxPending
  /\ connState[c] \in {"OPEN", "CLOSING"}
  /\ connState' = [connState EXCEPT ![c] = "CLOSED"]
  /\ loop' = [loop EXCEPT !.run = [NoRun EXCEPT !.handler = "close",
                                                !.conn = c,
                                                !.entries = registry,
                                                !.i = 1]]
  /\ UNCHANGED <<variant, registry, closeKeys, req, last, lastSet, lastVia,
                 stale, http, hook, ai, player>>

\* one iteration of the scan: compare, and on a match delete, issue the
\* mark-offline call (not awaited) and break
ScanStep ==
  /\ loop.run.handler = "close"
  /\ LET run == loop.run
     IN IF run.i > Len(run.entries)
        THEN /\ loop' = [loop EXCEPT !.run = NoRun]
             /\ UNCHANGED registry
        ELSE IF run.entries[run.i].conn = run.conn
        THEN /\ registry' = MapDelete(registry, run.entries[run.i].key)
             /\ loop' = [loop EXCEPT
                          !.pending = Append(@, StorageCall(
                                                  run.entries[run.i].key,
                                                  FALSE, run.conn, <<>>)),
                          !.run = NoRun]
        ELSE /\ loop' = [loop EXCEPT !.run.i = @ + 1]
             /\ UNCHANGED registry
  /\ UNCHANGED <<variant, connState, closeKeys, req, last, lastSet, lastVia,
                 stale, http, hook, ai, player>>

\* UPDATE screens SET is_online = ... WHERE device_key = key: rows of no
\* screen record do not exist
SetOnline(online, call) ==
  IF call.key \notin ScreenRecords THEN online
  ELSE IF call.online THEN online \cup {call.key}
  ELSE online \ {call.key}

\* a storage call completes, in any order, and the handler awaiting it
\* resumes
StorageDone(j) ==
  /\ loop.run = NoRun
  /\ j \in DOMAIN loop.pending
  /\ LET call == loop.pending[j]
     IN loop' = [loop EXCEPT
                   !.online = SetOnline(@, call),
                   !.pending = SubSeq(@, 1, j - 1) \o SubSeq(@, j + 1, Len(@)),
                   !.run = IF call.then = <<>> THEN NoRun
                           ELSE [NoRun EXCEPT !.handler = "message",
                                              !.conn = call.conn,
                                              !.key = call.key,
                                              !.todo = call.then]]
  /\ UNCHANGED <<registryVars, http, hook, ai, player>>

\* ------------------------------------------------- POST /api/broadcasts
\* JSON.stringify of the LOAD_PLAYLIST message: the object's members in
\* order, as a flat token sequence
JSONstringify(msg) ==
  <<"{", "type", msg.type, "payload", "{", "playlist", msg.payload.playlist,
    "broadcastId", msg.payload.broadcastId, "}", "}">>

LoadPlaylist(playlist, broadcastId) ==
  [type |-> "LOAD_PLAYLIST",
   payload |-> [playlist |-> playlist, broadcastId |-> broadcastId]]

\* the loop without the "screen &&" test: reading readyState of undefined
\* raises
RECURSIVE ForEachSend_NoNullCheck(_, _, _, _, _, _, _)
ForEachSend_NoNullCheck(ids, i, m, cs, faulty, data, acc) ==
  IF i > Len(ids) THEN acc
  ELSE
    LET screen == MapGet(m, ids[i])
        open == screen # None /\ cs[screen] = "OPEN"
    IN IF screen = None \/ (open /\ screen \in faulty)
       THEN [acc EXCEPT !.threwAt = i]
       ELSE IF ~open
       THEN ForEachSend_NoNullCheck(ids, i + 1, m, cs, faulty, data, acc)
       ELSE ForEachSend_NoNullCheck(ids, i + 1, m, cs, faulty, data,
                                    [acc EXCEPT !.sent = Append(@,
                                                  [to |-> screen,
                                                   key |-> ids[i],
                                                   data |-> data])])

\* screenIds.forEach from iteration i on: the lookup, the readyState test
\* and the send, which raises on the sockets of faulty and ends the loop
\* (the first raise ends the loop, so one faulty socket gives every outcome)
RECURSIVE ForEachSend(_, _, _, _, _, _, _)
ForEachSend(ids, i, m, cs, faulty, data, acc) ==
  IF i > Len(ids) THEN acc
  ELSE
    LET screen == MapGet(m, ids[i])
        open == screen # None /\ cs[screen] = "OPEN"
    IN IF ~open
       THEN ForEachSend(ids, i + 1, m, cs, faulty, data, acc)
       ELSE IF screen \in faulty
       THEN [acc EXCEPT !.threwAt = i]
       ELSE ForEachSend(ids, i + 1, m, cs, faulty, data,
                        [acc EXCEPT !.sent = Append(@, [to |-> screen,
                                                        key |-> ids[i],
                                                        data |-> data])])

Dispatch(ids, m, cs, faulty, data) ==
  ForEachSend(ids, 1, m, cs, faulty, data,
              [sent |-> <<>>, threwAt |-> 0])

TargetLists == UNION {[1..n -> DeviceKeys] : n \in 0..MaxTargets}

\* the handler has responded
Responded(r, code) ==
  [r EXCEPT !.pc = "done", !.response = code]

\* the body has no status member
NoStatus == "absent"

\* insertBroadcastSchema omits id and createdAt only: the body may carry a
\* status of the column's enum
BodyStatuses == {NoStatus, "pending", "broadcasting"}

\* the status of the inserted row: the body's, or the column default
InsertedStatus(bodyStatus) ==
  IF bodyStatus = NoStatus THEN "pending" ELSE bodyStatus

\* the request arrives: user lookup, schema validation, createBroadcast
BroadcastRequest(userOk, bodyValid, bodyStatus) ==
  /\ req.pc \in {"idle", "done"}
  /\ req' =
       IF ~userOk THEN Responded(IdleReq, HttpBadRequest)
       ELSE IF ~bodyValid THEN Responded(IdleReq, HttpServerError)
       ELSE [IdleReq EXCEPT !.pc = "created",
                            !.status = InsertedStatus(bodyStatus)]
  /\ last' = Step("request")
  /\ UNCHANGED <<variant, connState, registry, closeKeys, lastSet, lastVia, stale>>
  /\ UNCHANGED others

\* getPlaylistWithItems has resolved: 404, or serialize once and dispatch.
\* ids is validatedData.screenIds: the body is an input of the request and
\* the loop is the only reader of its screenIds, so it is drawn here
BroadcastDispatch(ids, found, faulty) ==
  /\ req.pc = "created"
  \* the targets matter only when the loop runs, a faulty socket only when
  \* the loop looks it up
  /\ ~found => ids = <<>> /\ faulty = {}
  /\ faulty \subseteq {MapGet(registry, ids[i]) : i \in DOMAIN ids}
  /\ LET message ==
           JSONstringify(LoadPlaylist(StoredPlaylist, StoredBroadcastId))
         out == Dispatch(ids, registry, connState, faulty, message)
     IN IF ~found
        THEN /\ req' = Responded(req, HttpNotFound)
             /\ last' = Step("notfound")
        ELSE /\ req' =
                  IF out.threwAt # 0
                  THEN Responded([req EXCEPT !.dispatched = TRUE],
                                 HttpServerError)
                  ELSE [req EXCEPT !.pc = "dispatched", !.dispatched = TRUE]
             /\ last' = [Step("dispatch")
                         EXCEPT !.ids = ids,
                                !.sent = out.sent, !.threwAt = out.threwAt,
                                !.data = message]
  /\ UNCHANGED <<variant, connState, registry, closeKeys, lastSet, lastVia, stale>>
  /\ UNCHANGED others

\* storage.updateBroadcast(broadcast.id, {status: 'broadcasting', ...})
BroadcastPersist ==
  /\ req.pc = "dispatched"
  /\ req' = [req EXCEPT !.pc = "persisted", !.status = "broadcasting"]
  /\ last' = Step("persist")
  /\ UNCHANGED <<variant, connState, registry, closeKeys, lastSet, lastVia, stale>>
  /\ UNCHANGED others

\* storage.createAuditLog(...) then res.json(broadcast)
BroadcastRespond ==
  /\ req.pc = "persisted"
  /\ req' = Responded(req, HttpOk)
  /\ last' = Step("respond")
  /\ UNCHANGED <<variant, connState, registry, closeKeys, lastSet, lastVia, stale>>
  /\ UNCHANGED others

\* ------------------------------------------- Express layers (index.ts)
HttpUnauthorized == 401

\* request paths, split at "/"; no segment has "health" or "auth" as a
\* proper prefix, so String.startsWith is a comparison of segments
Paths ==
  {<<"api", "health">>, <<"api", "auth", "jwt", "login">>,
   <<"api", "stats">>, <<"api", "broadcasts">>,
   <<"api", "player", "connect">>, <<"api", "missing">>, <<"index.html">>}

IsPrefix(p, q) ==
  Len(p) <= Len(q) /\ \A i \in DOMAIN p : p[i] = q[i]

\* the layers in the order in which startServer and registerRoutes add them
\* to the app; registerRoutes(app) runs before the Clerk gate is mounted
Stack(v) ==
  <<[name |-> "healthCheck", owner |-> "index", kind |-> "route",
     path |-> <<"api", "health">>, guard |-> "none"],
    [name |-> "logger", owner |-> "index", kind |-> "use",
     path |-> <<>>, guard |-> "none"],
    [name |-> "stats", owner |-> "registerRoutes", kind |-> "route",
     path |-> <<"api", "stats">>,
     guard |-> IF v = "auth" THEN "isAuthenticated" ELSE "none"],
    [name |-> "broadcasts", owner |-> "registerRoutes", kind |-> "route",
     path |-> <<"api", "broadcasts">>, guard |-> "isAuthenticated"],
    [name |-> "playerConnect", owner |-> "registerRoutes", kind |-> "route",
     path |-> <<"api", "player", "connect">>, guard |-> "none"],
    [name |-> "jwtLogin", owner |-> "setupAuthRoutes", kind |-> "route",
     path |-> <<"api", "auth", "jwt", "login">>, guard |-> "none"],
    [name |-> "clerkGate", owner |-> "index", kind |-> "use",
     path |-> <<"api">>, guard |-> "clerkAuth"],
    [name |-> "static", owner |-> "index", kind |-> "use",
     path |-> <<>>, guard |-> "none"]>>

\* a route matches its whole path, a mounted middleware a prefix
Matches(layer, path) ==
  IF layer.kind = "route" THEN layer.path = path
  ELSE IsPrefix(layer.path, path)

\* publicPaths.some(path => req.path.startsWith(path)), req.path being the
\* path below the mount point /api
PublicPath(path) ==
  /\ Len(path) >= 2
  /\ path[1] = "api"
  /\ path[2] \in {"health", "auth"}

\* a request arrives with or without a session of the routes' own guard and
\* with or without a Clerk session
HttpRequest(path, session, clerk) ==
  /\ http.pc \in {"idle", "done"}
  /\ http' = [IdleHttp EXCEPT !.pc = "walking", !.path = path,
                              !.session = session, !.clerk = clerk,
                              !.pos = 1]
  /\ UNCHANGED <<registryVars, hook, ai, loop, player>>

\* the layer at http.pos responds
Answered(r, name, owner, code) ==
  [r EXCEPT !.pc = "done", !.handler = name, !.owner = owner,
            !.response = code]

\* Express hands the request to the next layer: a layer that does not match
\* is skipped, a route handler ends the chain, a middleware calls next()
HttpLayer ==
  /\ http.pc = "walking"
  /\ LET layer == Stack(variant)[http.pos]
         onward == [http EXCEPT !.pos = @ + 1]
     IN http' =
          IF ~Matches(layer, http.path) THEN onward
          ELSE IF layer.kind = "route"
          THEN IF layer.guard = "isAuthenticated" /\ ~http.session
               THEN Answered(http, "isAuthenticated", "replitAuth",
                             HttpUnauthorized)
               ELSE Answered(http, layer.name, layer.owner, HttpOk)
          ELSE IF layer.name = "clerkGate"
          THEN IF PublicPath(http.path) THEN onward
               ELSE IF http.clerk
               THEN [onward EXCEPT !.passedClerk = TRUE]
               ELSE Answered(http, "errorHandler", "index", HttpUnauthorized)
          ELSE IF layer.name = "static"
          THEN Answered(http, layer.name, layer.owner, HttpOk)
          ELSE onward
  /\ UNCHANGED <<registryVars, hook, ai, loop, player>>

\* ------------------------------------------ client hook useWebSocket
maxReconnectAttempts == 5

\* the code of an intentional close
NormalClosure == 1000

\* close codes: normal closure, going away, abnormal closure
CloseCodes == {NormalClosure, 1001, 1006}

\* the grain of the clock, in ms
TickMs == 1000

RECURSIVE Pow(_, _)
Pow(b, e) == IF e = 0 THEN 1 ELSE b * Pow(b, e - 1)

\* a delay that grows by one second per attempt
Backoff_Linear(attempts) == (attempts + 1) * 1000

\* Math.pow(2, reconnectAttempts.current) * 1000
Backoff(attempts) == Pow(2, attempts) * 1000

\* reconnectAttempts.current = 0
OnOpenAttempts(attempts) == 0

\* the Player page mounts with the deviceKey of its route: the first render
\* (socket is null, so the register effect sends nothing) and the hook's
\* mount effect, which calls connect()
PlayerMount(key) ==
  /\ ~player.mounted
  /\ hook.ws = "NONE"
  /\ player' = [player EXCEPT !.mounted = TRUE, !.deviceKey = key]
  /\ hook' = MountedHook
  /\ UNCHANGED <<registryVars, http, ai, loop>>

\* ws.onopen
HookOpen ==
  /\ hook.ws = "CONNECTING"
  /\ hook' = [hook EXCEPT !.ws = "OPEN", !.isConnected = TRUE,
                          !.socket = "ws",
                          !.attempts = OnOpenAttempts(@), !.n = 0]
  /\ UNCHANGED <<registryVars, http, ai, loop, player>>

\* a test that allows one attempt more
ShouldReconnect_AtMost(code, attempts) ==
  code # NormalClosure /\ attempts <= maxReconnectAttempts

\* event.code !== 1000 && reconnectAttempts.current < maxReconnectAttempts
ShouldReconnect(code, attempts) ==
  code # NormalClosure /\ attempts < maxReconnectAttempts

\* ws.onclose; a socket that never opened closes abnormally, a socket that
\* disconnect() closed closes with the normal code
HookClose(code) ==
  /\ \/ hook.ws = "OPEN"
     \/ hook.ws = "CONNECTING" /\ code = 1006
     \/ hook.ws = "CLOSING" /\ code = NormalClosure
  /\ hook' =
       LET closed == [hook EXCEPT !.ws = "CLOSED", !.isConnected = FALSE,
                                  !.socket = "null",
                                  !.rendered = IF @ = "ws" THEN "old" ELSE @,
                                  !.code = code]
       IN IF ShouldReconnect(code, hook.attempts)
          THEN [closed EXCEPT !.timer = Backoff(hook.attempts),
                              !.elapsed = 0, !.cleared = FALSE]
          ELSE closed
  /\ UNCHANGED <<registryVars, http, ai, loop, player>>

\* time passes while the reconnect timeout is pending
HookTick ==
  /\ hook.timer # NoTimer
  /\ hook.elapsed < hook.timer
  /\ hook' = [hook EXCEPT !.elapsed = @ + TickMs]
  /\ UNCHANGED <<registryVars, http, ai, loop, player>>

\* the timeout fires: reconnectAttempts.current++ and connect()
HookTimer ==
  /\ hook.timer # NoTimer
  /\ hook.elapsed >= hook.timer
  /\ hook' = [hook EXCEPT !.attempts = @ + 1, !.n = @ + 1,
                          !.ws = "CONNECTING", !.timer = NoTimer,
                          !.elapsed = 0, !.out = <<>>, !.first = FALSE]
  /\ UNCHANGED <<registryVars, http, ai, loop, player>>

\* ws.onmessage: setLastMessage(JSON.parse(event.data)); a body that is not
\* JSON is logged
HookMessage(data) ==
  /\ hook.ws = "OPEN"
  /\ hook' = [hook EXCEPT !.lastMessage =
                 IF data = "garbage" THEN @ ELSE data]
  /\ UNCHANGED <<registryVars, http, ai, loop, player>>

\* disconnect(): clearTimeout and, when the socket of the last render is
\* open, close(1000); a call that finds neither changes nothing
HookDisconnect ==
  /\ player.mounted
  /\ hook.timer # NoTimer \/ (hook.rendered = "ws" /\ hook.ws = "OPEN")
  /\ hook' = [hook EXCEPT !.timer = NoTimer, !.elapsed = 0,
                          !.cleared = (hook.timer # NoTimer),
                          !.ws = IF hook.rendered = "ws" /\ @ = "OPEN"
                                 THEN "CLOSING" ELSE @]
  /\ UNCHANGED <<registryVars, http, ai, loop, player>>

\* the cleanup of the mount effect: clearTimeout and close(1000) of the
\* socket that this effect created, when it is open; the handlers of a
\* later socket stay installed
HookUnmount ==
  /\ player.mounted
  /\ player' = [player EXCEPT !.mounted = FALSE]
  /\ hook' = [hook EXCEPT !.timer = NoTimer, !.elapsed = 0,
                          !.cleared = (@ \/ hook.timer # NoTimer),
                          !.ws = IF hook.first /\ @ = "OPEN"
                                 THEN "CLOSING" ELSE @]
  /\ UNCHANGED <<registryVars, http, ai, loop>>

\* the register effect of a render that only the first socket triggers
Registers_FirstOnly(h, key) ==
  h.socket = "ws" /\ key # EmptyKey /\ h.first

\* if (socket && deviceKey)
Registers(h, key) == h.socket = "ws" /\ key # EmptyKey

\* the message of the register effect
PlayerRegister(key) ==
  [type |-> "PLAYER_REGISTER", payload |-> [deviceKey |-> key]]

\* sendMessage: send when the socket is open, else warn
SendMessage(h, message) ==
  IF h.socket = "ws" /\ h.ws = "OPEN"
  THEN [h EXCEPT !.out = Append(@, message)]
  ELSE h

\* the component renders with a new value of socket and its effects run:
\* the register effect (its dependencies socket and sendMessage changed)
RegisterEffect ==
  /\ player.mounted
  /\ hook.rendered # hook.socket
  /\ hook' =
       LET committed == [hook EXCEPT !.rendered = hook.socket]
       IN IF Registers(hook, player.deviceKey)
          THEN SendMessage(committed, PlayerRegister(player.deviceKey))
          ELSE committed
  /\ UNCHANGED <<registryVars, http, ai, loop, player>>

\* ------------------------------------------- Player page (player.tsx)
\* the duration of an item that has none (undefined), and the number NaN
NoDuration == -1
NaN == -2

\* the fallback of "duration || 10"
DefaultDuration == 10

\* durations of items: none, 0, the shortest and the longest
Durations == {NoDuration, 0, 1, MaxDuration}

Playlist(items) == [loaded |-> TRUE, items |-> items]

\* the playlists of LOAD_PLAYLIST messages and of /api/player/connect: every
\* one has its items array, empty or not
Playlists ==
  {Playlist(items) : items \in UNION {[1..n -> Durations] : n \in 0..MaxItems}}

\* items?.[index]?.duration, index counting from 0
ItemDuration(playlist, index) ==
  IF index # NaN /\ index + 1 \in DOMAIN playlist.items
  THEN playlist.items[index + 1]
  ELSE NoDuration

\* "duration ?? 10": only a missing duration is replaced
OrDefault_Nullish(duration) ==
  IF duration = NoDuration THEN DefaultDuration ELSE duration

\* "duration || 10": undefined and 0 are falsy
OrDefault(duration) ==
  IF duration = NoDuration \/ duration = 0 THEN DefaultDuration ELSE duration

\* the remainder operator of JavaScript on the numbers of the player
Rem(a, b) == IF a = NaN \/ b = 0 THEN NaN ELSE a % b

Inc(a) == IF a = NaN THEN NaN ELSE a + 1

\* "length || 1"
OrOne(length) == IF length = 0 THEN 1 ELSE length

\* a test that lets an item stay for one tick more
ItemOver_AtZero(timeRemaining) == timeRemaining <= 0

\* prev.timeRemaining <= 1
ItemOver(timeRemaining) == timeRemaining <= 1

\* the playerData effect: the answer of /api/player/connect arrives (the
\* query is enabled when there is a deviceKey)
InitializeFromServer(playlist) ==
  /\ player.mounted
  /\ player.deviceKey # EmptyKey
  /\ ~player.fetched
  /\ player' =
       IF playlist.loaded
       THEN [player EXCEPT !.fetched = TRUE, !.op = "data",
                           !.currentPlaylist = playlist,
                           !.currentIndex = 0,
                           !.isPlaying = FALSE,
                           !.timeRemaining =
                             OrDefault(ItemDuration(playlist, 0)),
                           !.shown = 0]
       ELSE [player EXCEPT !.fetched = TRUE, !.op = "data"]
  /\ UNCHANGED <<registryVars, http, hook, ai, loop>>

\* handleMessage for a LOAD_PLAYLIST message
handleMessage(playlist) ==
  /\ player.mounted
  /\ player' = [player EXCEPT !.op = "load",
                              !.currentPlaylist = playlist,
                              !.currentIndex = 0,
                              !.isPlaying = TRUE,
                              !.timeRemaining =
                                OrDefault(ItemDuration(playlist, 0)),
                              !.shown = 0]
  /\ UNCHANGED <<registryVars, http, hook, ai, loop>>

\* the updater of the auto-advance interval
Advance(prev) ==
  IF ItemOver(prev.timeRemaining)
  THEN LET nextIndex == Rem(Inc(prev.currentIndex),
                            OrOne(Len(prev.currentPlaylist.items)))
       IN [prev EXCEPT !.currentIndex = nextIndex,
                       !.timeRemaining =
                         OrDefault(ItemDuration(prev.currentPlaylist,
                                                nextIndex)),
                       !.shown = 0]
  ELSE [prev EXCEPT !.timeRemaining = @ - 1, !.shown = @ + 1]

\* a second passes: the clock interval fires, and the auto-advance interval
\* when there is one (isPlaying and a playlist)
PlayerTick ==
  /\ player.mounted
  /\ player' =
       IF player.isPlaying /\ player.currentPlaylist.loaded
       THEN [Advance(player) EXCEPT !.op = "tick"]
       ELSE [player EXCEPT !.op = "tick"]
  /\ UNCHANGED <<registryVars, http, hook, ai, loop>>

togglePlayPause ==
  /\ player.mounted
  /\ player' = [player EXCEPT !.op = "toggle", !.isPlaying = ~@]
  /\ UNCHANGED <<registryVars, http, hook, ai, loop>>

\* the button is disabled, and the function returns, without a playlist
nextItem ==
  /\ player.mounted
  /\ player.currentPlaylist.loaded
  /\ LET nextIndex == Rem(Inc(player.currentIndex),
                          Len(player.currentPlaylist.items))
     IN player' = [player EXCEPT !.op = "next",
                                 !.currentIndex = nextIndex,
                                 !.timeRemaining =
                                   OrDefault(ItemDuration(
                                     player.currentPlaylist, nextIndex)),
                                 !.shown = 0]
  /\ UNCHANGED <<registryVars, http, hook, ai, loop>>

\* ------------------------------------------------ AI calls (openai.ts)
\* the words the fallback of tagImage looks for; a file name is modelled by
\* the set of these words that its lower-cased base name includes
Keywords == {"business", "office", "team", "meeting", "product"}

FileNames == SUBSET Keywords

\* what can happen inside the try block: the call succeeds, readFileSync
\* raises, the remote call rejects, or the reply is not JSON
Outcomes == {"ok", "readFails", "remoteFails", "badJson"}

\* the values a request body can give timeOfDay and audienceType
BodyValues ==
  {Undefined, Null, Str("morning"), Str("evening"), Num("5")}

\* a default parameter value replaces undefined only
Default(value, text) == IF value = Undefined THEN Str(text) ELSE value

\* a template literal's text of a value
Text(value) ==
  IF value.t = "string" \/ value.t = "number" THEN value.v ELSE value.t

\* the catch block of tagImage
FallbackTags(name) ==
  (IF "business" \in name \/ "office" \in name
   THEN <<"business", "professional">> ELSE <<>>)
  \o (IF "team" \in name \/ "meeting" \in name
      THEN <<"team", "collaboration">> ELSE <<>>)
  \o (IF "product" \in name THEN <<"product", "showcase">> ELSE <<>>)
  \o <<"image", "content">>

\* the call returned a value, or raised (its promise is rejected)
Returned(call, value) == [call EXCEPT !.pc = "returned", !.result = value]
Raised(call) == [call EXCEPT !.pc = "raised"]

\* tagImage(imagePath); the reply of the remote model is opaque
tagImage(name, outcome) ==
  /\ ai' =
       LET call == [IdleAI EXCEPT !.fn = "tagImage", !.name = name,
                                  !.outcome = outcome]
       IN IF outcome = "ok"
          THEN Returned(call, [source |-> "remote"])
          ELSE Returned(call, [source |-> "fallback",
                               tags |-> FallbackTags(name),
                               confidence |-> 50,
                               description |->
                                 "Auto-tagged with fallback system"])
  /\ UNCHANGED <<registryVars, http, hook, loop, player>>

\* generateAISuggestions(context, timeOfDay, audienceType) as the route calls
\* it, with members of req.body; timeOfDay.charAt in the catch block raises
\* a TypeError when timeOfDay is not a string
generateAISuggestions(timeOfDay, audienceType, outcome) ==
  /\ outcome # "readFails"
  /\ ai' =
       LET time == Default(timeOfDay, "morning")
           audience == Default(audienceType, "general")
           call == [IdleAI EXCEPT !.fn = "generateAISuggestions",
                                  !.timeOfDay = timeOfDay,
                                  !.audienceType = audienceType,
                                  !.outcome = outcome]
       IN IF outcome = "ok"
          THEN Returned(call, [source |-> "remote"])
          ELSE IF time.t # "string"
          THEN Raised(call)
          ELSE Returned(call, [source |-> "fallback",
                               timeOfDay |-> Text(time),
                               audienceType |-> Text(audience)])
  /\ UNCHANGED <<registryVars, http, hook, loop, player>>

\* --------------------------------------------------------- specifications
\* calls of the AI functions
NextAI ==
  \/ \E name \in FileNames, outcome \in Outcomes : tagImage(name, outcome)
  \/ \E timeOfDay \in BodyValues, audienceType \in BodyValues,
        outcome \in Outcomes :
       generateAISuggestions(timeOfDay, audienceType, outcome)

SpecAI == Init /\ [][NextAI]_vars

\* the playback of one player: playlists arrive, seconds pass, the buttons
\* are pressed
NextPlayer ==
  \/ \E key \in {EmptyKey, 1} : PlayerMount(key)
  \/ \E playlist \in Playlists \cup {NoPlaylist} :
       InitializeFromServer(playlist)
  \/ \E playlist \in Playlists : handleMessage(playlist)
  \/ PlayerTick
  \/ togglePlayPause
  \/ nextItem

SpecPlayer == Init /\ [][NextPlayer]_vars

\* setInterval fires every second
SpecPlayerLive == SpecPlayer /\ WF_vars(PlayerTick)

\* the hook of one client: open, close, wait, reconnect
NextHook ==
  \/ \E key \in DeviceKeys \cup {EmptyKey} : PlayerMount(key)
  \/ HookOpen
  \/ \E code \in CloseCodes : HookClose(code)
  \/ HookTick
  \/ HookTimer
  \/ \E data \in {"LOAD_PLAYLIST", "garbage"} : HookMessage(data)
  \/ HookDisconnect
  \/ HookUnmount
  \/ RegisterEffect

SpecHook == Init /\ [][NextHook]_vars

\* React runs the effects of a render whose dependencies changed
SpecHookLive == SpecHook /\ WF_vars(RegisterEffect)

\* requests walking the Express layers
NextHttp ==
  \/ \E path \in Paths, session \in BOOLEAN, clerk \in BOOLEAN :
       HttpRequest(path, session, clerk)
  \/ HttpLayer

SpecHttp == Init /\ [][NextHttp]_vars

BroadcastNext ==
  \/ \E userOk \in BOOLEAN, bodyValid \in BOOLEAN,
        bodyStatus \in BodyStatuses :
       BroadcastRequest(userOk, bodyValid, bodyStatus)
  \/ \E ids \in TargetLists, found \in BOOLEAN,
        faulty \in {{}} \cup {{c} : c \in Conns} :
       BroadcastDispatch(ids, found, faulty)
  \/ BroadcastPersist
  \/ BroadcastRespond

\* players register by PLAYER_REGISTER only, where both variants agree
InitPlayers == Init /\ variant = "auth"

\* players that connect, register and close
NextPlayers ==
  \/ \E c \in Conns : Connect(c)
  \/ \E c \in Conns, m \in RegisterMessages : OnMessage(c, m)
  \/ \E c \in Conns : BeginClose(c)
  \/ \E c \in Conns : CloseEvent(c)

SpecPlayers == InitPlayers /\ [][NextPlayers]_vars

\* the event loop of the server: PLAYER_REGISTER and close events, handled
\* statement by statement, and storage calls completing in any order
NextLoop ==
  \/ \E c \in Conns : OnConnection(c)
  \/ \E c \in Conns : OnClosing(c)
  \/ \E c \in Conns, key \in DeviceKeys : MessageEvent(c, key)
  \/ RegisterStep
  \/ \E c \in Conns : OnClose(c)
  \/ ScanStep
  \/ \E j \in 1..MaxPending : StorageDone(j)

SpecLoop == InitPlayers /\ [][NextLoop]_vars

\* the WebSocket server alone, with every kind of inbound message
Next ==
  \/ \E c \in Conns : Connect(c)
  \/ \E c \in Conns, m \in Messages : OnMessage(c, m)
  \/ \E c \in Conns : BeginClose(c)
  \/ \E c \in Conns : CloseEvent(c)

Spec == Init /\ [][Next]_vars

\* broadcast requests interleaved with players that register and close
NextBroadcast == NextPlayers \/ BroadcastNext

SpecBroadcast == InitPlayers /\ [][NextBroadcast]_vars

\* both variants with every inbound message except an effective
\* REGISTER_SCREEN (in the auth variant REGISTER_SCREEN is one more
\* unrecognized type)
NextMessages ==
  \/ \E c \in Conns : Connect(c)
  \/ \E c \in Conns, m \in {x \in Messages : ~ScreenRegisters(x)} :
       OnMessage(c, m)
  \/ \E c \in Conns : BeginClose(c)
  \/ \E c \in Conns : CloseEvent(c)

SpecMessages == Init /\ [][NextMessages]_vars

\* broadcast requests with a body of playlistId and screenIds, on sockets
\* whose sends all succeed (the sends of a loop that a raising send cuts
\* short are a prefix of these), interleaved with players that register and
\* close
DeliveryNext ==
  \/ \E userOk \in BOOLEAN, bodyValid \in BOOLEAN :
       BroadcastRequest(userOk, bodyValid, NoStatus)
  \/ \E ids \in TargetLists, found \in BOOLEAN :
       BroadcastDispatch(ids, found, {})
  \/ BroadcastPersist
  \/ BroadcastRespond

NextDelivery == NextPlayers \/ DeliveryNext

SpecDelivery == InitPlayers /\ [][NextDelivery]_vars

\* ------------------------------------------------------------ properties
NoDuplicateKeys(m) ==
  \A i, j \in DOMAIN m : m[i].key = m[j].key => i = j

\* no close event and no REGISTER_SCREEN registration has happened
OnlyPlayerRegisters ==
  \A c \in Conns : connState[c] # "CLOSED" /\ closeKeys[c] = {}

\* the step from the unprimed to the primed state is the close event of c
Closes(c) == connState[c] # "CLOSED" /\ connState'[c] = "CLOSED"

\* the entries of the registry addressed by a target list
Addressed(m, ids) == {i \in DOMAIN m : m[i].key \in Range(ids)}

OpenTargets(m, cs, ids) ==
  {m[i].conn : i \in {x \in Addressed(m, ids) : cs[m[x].conn] = "OPEN"}}

Recipients == {last.sent[j].to : j \in DOMAIN last.sent}

\* C1: when connection A has registered under k by PLAYER_REGISTER and a
\* different connection B holds k, processing A's close leaves k mapped to B.
C1_IdentityUnregister ==
  [][\A a \in Conns, k \in DeviceKeys :
       (/\ Closes(a)
        /\ stale = [conn |-> a, key |-> k]
        /\ MapGet(registry, k) \notin {None, a})
         => MapGet(registry', k) = MapGet(registry, k)]_vars

\* C2: after PLAYER_REGISTER messages only (no close), the registry has at most
\* one entry per deviceKey and lookup(k) is the latest connection registered
\* under k.
C2_LatestRegistration ==
  OnlyPlayerRegisters =>
    /\ NoDuplicateKeys(registry)
    /\ \A k \in DeviceKeys : MapGet(registry, k) = lastSet[k]

C2_Witness ==
  /\ OnlyPlayerRegisters
  /\ last.op = "PLAYER_REGISTER"
  /\ \E k \in DeviceKeys, a, b \in Conns :
       /\ a # b
       /\ stale = [conn |-> a, key |-> k]
       /\ lastSet[k] = b
       /\ MapGet(registry, k) = b
  /\ Len(registry) = 2

\* C3: a broadcast sends to exactly the connections that are the registry
\* value of a target key and OPEN; the set does not depend on the order of the
\* targets (it is a function of the set of targets).
C3_ExactlyOpenRegistered ==
  last.op = "dispatch" =>
    Recipients = OpenTargets(registry, connState, last.ids)

\* C4: when a send raises in a broadcast, every later target that is
\* registered and open (on another connection) still receives the message.
C4_ErrorDoesNotAbort ==
  (last.op = "dispatch" /\ last.threwAt > 0) =>
    \A i \in (last.threwAt + 1)..Len(last.ids) :
      LET c == MapGet(registry, last.ids[i])
      IN (/\ c # None
          /\ connState[c] = "OPEN"
          /\ c # MapGet(registry, last.ids[last.threwAt]))
           => c \in Recipients

\* C5: a request whose dispatch was attempted responds with success.
C5_DispatchedRespondsOk ==
  (req.pc = "done" /\ req.dispatched) => req.response = HttpOk

\* C6: in a broadcast (in which no send raises) every connection registered
\* and open for a target key receives exactly one message, and every message
\* sent is the one serialized string.
C6_ExactlyOneMessage ==
  (last.op = "dispatch" /\ last.threwAt = 0) =>
    /\ \A c \in OpenTargets(registry, connState, last.ids) :
         Cardinality({j \in DOMAIN last.sent : last.sent[j].to = c}) = 1
    /\ \A j \in DOMAIN last.sent : last.sent[j].data = last.data

\* C7: every send of a broadcast made for target key k goes to the connection
\* that registered under k last, never to a connection superseded under k.
C7_OnlyLatestReceives ==
  last.op = "dispatch" =>
    \A j \in DOMAIN last.sent :
      /\ last.sent[j].to = lastSet[last.sent[j].key]
      /\ (stale.key = last.sent[j].key /\ lastSet[stale.key] # stale.conn)
           => last.sent[j].to # stale.conn

C7_Witness ==
  /\ last.op = "dispatch"
  /\ \E k \in DeviceKeys, a, b \in Conns :
       /\ a # b
       /\ stale = [conn |-> a, key |-> k]
       /\ connState[a] = "OPEN"
       /\ lastSet[k] = b
       /\ \E j \in DOMAIN last.sent :
            last.sent[j].key = k /\ last.sent[j].to = b
       /\ a \notin Recipients

\* C8: a broadcast to targets none of which is registered sends nothing and
\* raises no error.
C8_NobodyRegistered ==
  (last.op = "dispatch" /\ Addressed(registry, last.ids) = {}) =>
    /\ last.sent = <<>>
    /\ last.threwAt = 0
    /\ req.pc = "dispatched"

C8_Witness ==
  /\ last.op = "dispatch"
  /\ last.ids # <<>>
  /\ Addressed(registry, last.ids) = {}
  /\ \E i \in DOMAIN registry : connState[registry[i].conn] = "OPEN"
  /\ last.sent = <<>>
  /\ req.pc = "dispatched"

\* C9: the close of a connection that is the value of no registry entry
\* leaves the registry unchanged and issues no mark-offline call.
C9_CloseOfUnregisteredIsNoOp ==
  [][\A c \in Conns :
       (Closes(c) /\ \A i \in DOMAIN registry : registry[i].conn # c)
         => (registry' = registry /\ last'.calls = <<>>)]_vars

\* C10: when a connection closes, every key k whose registry value it is loses
\* its entry and updateScreenOnlineStatus(k, false) is issued for k.
C10_CloseUnregisters ==
  [][\A c \in Conns, k \in DeviceKeys :
       (Closes(c) /\ MapGet(registry, k) = c)
         => /\ MapGet(registry', k) = None
            /\ \E j \in DOMAIN last'.calls :
                 last'.calls[j] = [key |-> k, online |-> FALSE]]_vars

\* the message of the last step is a PLAYER_REGISTER with a non-empty key
RegisteredLast(k) ==
  /\ last.op = "PLAYER_REGISTER"
  /\ last.msg.payload
  /\ last.msg.deviceKey = k
  /\ k # EmptyKey

\* C11: every PLAYER_REGISTER with a non-empty deviceKey k, a repeated one on
\* an already registered connection included, leaves exactly one entry for k,
\* mapped to the registering connection, and issues exactly one storage call,
\* updateScreenOnlineStatus(k, true).
C11_RegisterMarksOnline ==
  \A k \in DeviceKeys :
    RegisteredLast(k) =>
      /\ MapGet(registry, k) # None
      /\ MapGet(registry, k) = lastSet[k]
      /\ Cardinality({i \in DOMAIN registry : registry[i].key = k}) = 1
      /\ last.calls = <<[key |-> k, online |-> TRUE]>>

C11_Witness ==
  \E k \in DeviceKeys :
    /\ RegisteredLast(k)
    /\ last.again
    /\ MapGet(registry, k) = lastSet[k]
    /\ last.calls = <<[key |-> k, online |-> TRUE]>>

\* C12: a PLAYER_REGISTER whose deviceKey is empty or missing (a missing
\* payload included) changes nothing: the registry and every readyState are
\* as before, no storage call is issued and no exception leaves the handler.
C12_EmptyKeyIsNoOp ==
  [][(/\ last'.op = "PLAYER_REGISTER"
      /\ (~last'.msg.payload \/ last'.msg.deviceKey = EmptyKey))
       => /\ registry' = registry
          /\ connState' = connState
          /\ last'.calls = <<>>
          /\ last'.error # "escaped"]_vars

C12_Witness ==
  /\ last.op = "PLAYER_REGISTER"
  /\ last.msg.payload
  /\ last.msg.deviceKey = EmptyKey
  /\ last.calls = <<>>
  /\ \E i \in DOMAIN registry : connState[registry[i].conn] = "OPEN"

\* C13: a message that is not JSON or whose type is not recognized is
\* ignored: no exception leaves the handler, no readyState changes and the
\* registry is as before.
C13_MalformedIsIgnored ==
  [][(\/ last'.op \in {"garbage", "OTHER"}
      \/ variant = "auth" /\ last'.op = "REGISTER_SCREEN")
       => /\ last'.error # "escaped"
          /\ connState' = connState
          /\ registry' = registry
          /\ last'.calls = <<>>]_vars

C13_Witness ==
  /\ last.op = "garbage"
  /\ last.error = "caught"
  /\ \E i \in DOMAIN registry : connState[registry[i].conn] = "OPEN"

\* C14: a PLAYER_STATUS message, whatever deviceKey and status it carries,
\* leaves lookup(k) as it was for every key k and issues no storage call.
C14_StatusChangesNothing ==
  [][last'.op = "PLAYER_STATUS"
       => /\ \A k \in DeviceKeys : MapGet(registry', k) = MapGet(registry, k)
          /\ Len(registry') = Len(registry)
          /\ last'.calls = <<>>]_vars

C14_Witness ==
  /\ last.op = "PLAYER_STATUS"
  /\ last.msg.payload
  /\ last.msg.deviceKey # EmptyKey
  /\ MapGet(registry, last.msg.deviceKey) = None
  /\ registry # <<>>

\* C15: a PLAYER_REGISTER for a key that is already mapped to the sending
\* connection leaves the registry as it was after the first registration.
C15_RegisterTwiceIdempotent ==
  [][(last'.op = "PLAYER_REGISTER" /\ last'.again) => registry' = registry]_vars

C15_Witness ==
  \E k \in DeviceKeys :
    /\ RegisteredLast(k)
    /\ last.again
    /\ Len(registry) = 2
    /\ Cardinality({i \in DOMAIN registry : registry[i].key = k}) = 1
    /\ connState[MapGet(registry, k)] = "OPEN"

\* C16: the broadcast row is in status 'broadcasting' only when the dispatch
\* loop of its request has finished (playlist resolved, targets dispatched,
\* then the status persisted).
C16_BroadcastingAfterDispatch ==
  req.status = "broadcasting" =>
    (req.dispatched /\ req.pc \in {"persisted", "done"})

\* C17: a request to an /api path that does not start with /api/health or
\* /api/auth has passed Clerk authentication when a route handler registered
\* by registerRoutes handles it.
C17_ClerkBeforeRoutes ==
  (/\ http.pc = "done"
   /\ http.owner = "registerRoutes"
   /\ IsPrefix(<<"api">>, http.path)
   /\ ~PublicPath(http.path))
    => http.passedClerk

\* C18: every key of the registry is the deviceKey of an existing screen
\* record, so only connections that announce such a key receive broadcasts.
C18_OnlyKnownScreens ==
  \A i \in DOMAIN registry : registry[i].key \in ScreenRecords

\* C19: a reconnect timeout is pending only after a close that was not
\* intentional, its delay is 2^n x 1000 ms for the n reconnects made since
\* the last successful open (1 s, 2 s, 4 s, 8 s, 16 s), every such close is
\* followed by one unless it is cancelled, and an open socket has n = 0 in
\* the hook's counter.
C19_ExponentialBackoff ==
  /\ hook.timer # NoTimer =>
       /\ hook.code # NormalClosure
       /\ hook.n \in 0..4
       /\ hook.timer = Pow(2, hook.n) * 1000
  /\ (/\ hook.ws = "CLOSED"
      /\ hook.code # NormalClosure
      /\ hook.n < maxReconnectAttempts
      /\ ~hook.cleared) => hook.timer # NoTimer
  /\ hook.ws = "OPEN" => hook.attempts = 0
  /\ hook.attempts = hook.n

C19_Witness ==
  /\ hook.n = 4
  /\ hook.timer = 16000
  /\ hook.elapsed = hook.timer
  /\ hook.ws = "CLOSED"

\* C20: tagImage and generateAISuggestions never raise; when the call inside
\* fails they return the fallback computed from their arguments: for tagImage
\* the tags of the file name, ending with 'image' and 'content', with
\* confidence 0.5; for generateAISuggestions the texts of timeOfDay and
\* audienceType.
C20_FallbackNeverRaises ==
  ai.pc # "idle" =>
    /\ ai.pc = "returned"
    /\ (ai.outcome # "ok") =>
         /\ ai.result.source = "fallback"
         /\ ai.fn = "tagImage" =>
              /\ ai.result.tags = FallbackTags(ai.name)
              /\ {"image", "content"} \subseteq Range(ai.result.tags)
              /\ ai.result.confidence = 50
         /\ ai.fn = "generateAISuggestions" =>
              /\ ai.result.timeOfDay = Text(Default(ai.timeOfDay, "morning"))
              /\ ai.result.audienceType =
                   Text(Default(ai.audienceType, "general"))

\* C22: once the close event of a connection has been processed, no entry of
\* the registry has that connection as its value, whatever it registered
\* before (several deviceKeys included).
C22_ClosedLeavesNoEntry ==
  \A c \in Conns :
    connState[c] = "CLOSED" => \A i \in DOMAIN registry : registry[i].conn # c

\* C23: in the variant that accepts REGISTER_SCREEN, the close of a connection
\* removes no entry whose value is a different connection: when A announced
\* screenId s, B registered under s afterwards and A closes, s still maps
\* to B.
C23_CloseKeepsNewerEntry ==
  [][\A a \in Conns, s \in DeviceKeys :
       (/\ variant = "noauth"
        /\ Closes(a)
        /\ s \in closeKeys[a]
        /\ MapGet(registry, s) \notin {None, a})
         => MapGet(registry', s) = MapGet(registry, s)]_vars

\* C25: a broadcast request whose playlist cannot be resolved responds 404,
\* has sent no message and leaves its broadcast row in a status other than
\* 'broadcasting'.
C25_UnresolvedPlaylist ==
  last.op = "notfound" =>
    /\ req.response = HttpNotFound
    /\ last.sent = <<>>
    /\ ~req.dispatched
    /\ req.status # "broadcasting"

\* C26: a close of the hook's socket schedules a reconnect exactly when its
\* code is not 1000 and fewer than 5 reconnects were made since the last
\* open; while the socket is closed after a close with code 1000, or after
\* the fifth reconnect has failed, no connection attempt follows.
C26_ReconnectOnlyUnintended ==
  [][/\ (hook.ws \notin {"NONE", "CLOSED"} /\ hook'.ws = "CLOSED") =>
          ((hook'.timer # NoTimer) <=>
             (hook'.code # NormalClosure /\ hook.n < maxReconnectAttempts))
     /\ (/\ hook.ws = "CLOSED"
         /\ hook.code = NormalClosure \/ hook.n >= maxReconnectAttempts)
          => (hook'.ws = "CLOSED" /\ hook'.timer = NoTimer)]_vars

C26_Witness ==
  /\ hook.ws = "CLOSED"
  /\ hook.n = maxReconnectAttempts
  /\ hook.code # NormalClosure
  /\ hook.timer = NoTimer
  /\ ~hook.cleared

\* C27: every message the player sends is a PLAYER_REGISTER with its
\* deviceKey, and whenever the socket of a mounted player with a deviceKey is
\* open, on the first connection and after every reconnect, the player sends
\* that message on it (unless the socket closes or the page unmounts first).
C27_RegistersOnEveryOpen ==
  /\ [](\A i \in DOMAIN hook.out :
          /\ hook.out[i] = PlayerRegister(player.deviceKey)
          /\ player.deviceKey # EmptyKey)
  /\ (hook.ws = "OPEN" /\ player.mounted /\ player.deviceKey # EmptyKey)
       ~> (\/ hook.out # <<>>
           \/ hook.ws # "OPEN"
           \/ ~player.mounted)

C27_Witness ==
  /\ hook.ws = "OPEN"
  /\ ~hook.first
  /\ player.mounted
  /\ hook.out = <<PlayerRegister(player.deviceKey)>>

\* C21: no handler suspends inside a registry operation: a PLAYER_REGISTER
\* handler that awaits its mark-online call has made its insert already, a
\* mark-offline call is issued after the delete, and the close handler's scan
\* works on the registry as it is (no other handler ran since the scan
\* began).
C21_AtomicRegistryOperations ==
  /\ \A j \in DOMAIN loop.pending :
       LET call == loop.pending[j]
       IN /\ "set" \notin Range(call.then)
          /\ ~call.online => call.then = <<>>
  /\ loop.run.handler = "close" => loop.run.entries = registry

C21_Witness ==
  /\ loop.run.handler = "close"
  /\ loop.run.i > 1
  /\ \E j \in DOMAIN loop.pending :
       /\ loop.pending[j].online
       /\ loop.pending[j].then = <<>>
       /\ MapGet(registry, loop.pending[j].key) # None
       /\ MapGet(registry, loop.pending[j].key) # loop.run.conn

\* C24: when no handler runs and no updateScreenOnlineStatus call is in
\* flight, the screens marked online in storage are those whose deviceKey has
\* a registry entry, in whatever order the calls completed.
C24_OnlineMirrorsRegistry ==
  (loop.run = NoRun /\ loop.pending = <<>>) =>
    \A k \in ScreenRecords :
      (k \in loop.online) <=> (MapGet(registry, k) # None)

\* C28: after a LOAD_PLAYLIST message, whatever the state before it, the
\* player has the message's playlist, currentIndex 0, isPlaying true, and
\* timeRemaining is the first item's duration, or 10 when there is no first
\* item or its duration is missing or 0.
C28_LoadPlaylist ==
  [][\A playlist \in Playlists :
       (player'.op = "load" /\ player'.currentPlaylist = playlist) =>
         /\ player'.currentIndex = 0
         /\ player'.isPlaying
         /\ player'.timeRemaining =
              IF /\ playlist.items # <<>>
                 /\ playlist.items[1] \notin {NoDuration, 0}
              THEN playlist.items[1]
              ELSE 10]_vars

C28_Witness ==
  /\ player.op = "load"
  /\ Len(player.currentPlaylist.items) = MaxItems
  /\ player.currentPlaylist.items[1] = 0
  /\ player.timeRemaining = DefaultDuration
  /\ player.isPlaying

\* C29: currentIndex is an integer from 0 to max(1, number of items) - 1 in
\* every state of the player.
C29_IndexInRange ==
  LET n == Len(player.currentPlaylist.items)
  IN /\ player.currentIndex # NaN
     /\ player.currentIndex >= 0
     /\ player.currentIndex < (IF n > 1 THEN n ELSE 1)

\* a playlist with at least one item, every item of duration >= 1
Playable(playlist) ==
  /\ playlist.loaded
  /\ playlist.items # <<>>
  /\ \A i \in DOMAIN playlist.items : playlist.items[i] >= 1

\* the step is a second passing
Ticks == player'.op = "tick" /\ player' # player

\* C30: while a playable playlist is playing, a tick either leaves the item
\* on display, which has been shown for fewer ticks than its duration, or
\* ends it after exactly its duration and shows the next one in cyclic order;
\* a tick while paused changes neither currentIndex nor timeRemaining; and
\* when ticks are all that happens, every item is on display again and again.
C30_CyclicPlayback ==
  /\ [][(Ticks /\ player.isPlaying /\ Playable(player.currentPlaylist)) =>
          LET n == Len(player.currentPlaylist.items)
              d == player.currentPlaylist.items[player.currentIndex + 1]
          IN IF player.shown + 1 = d
             THEN /\ player'.currentIndex = (player.currentIndex + 1) % n
                  /\ player'.shown = 0
             ELSE /\ player.shown + 1 < d
                  /\ player'.currentIndex = player.currentIndex
                  /\ player'.shown = player.shown + 1]_vars
  /\ [][(Ticks /\ ~player.isPlaying) =>
          /\ player'.currentIndex = player.currentIndex
          /\ player'.timeRemaining = player.timeRemaining]_vars
  /\ \A i \in 0..(MaxItems - 1) :
       <>[](/\ player.op = "tick"
            /\ player.isPlaying
            /\ Playable(player.currentPlaylist)
            /\ i < Len(player.currentPlaylist.items))
         => []<>(player.currentIndex = i)

C30_Witness ==
  /\ player.op = "tick"
  /\ player.isPlaying
  /\ Playable(player.currentPlaylist)
  /\ Len(player.currentPlaylist.items) = MaxItems
  /\ player.currentPlaylist.items[MaxItems] = MaxDuration
  /\ player.currentIndex = 0
  /\ player.shown = 0

====
